---- MODULE Spec2Model ----
(***************************************************************************)
(* Model of the report pipeline of src/app.py: parse_medical_report turns  *)
(* the generator's markdown text into a nested document and clean_json     *)
(* normalises that document.                                               *)
(*                                                                         *)
(* A Python str is a sequence of one-character strings.  A JSON-like value *)
(* is a tagged record: [t |-> "str", v |-> characters],                    *)
(* [t |-> "list", v |-> sequence of values] or [t |-> "dict", v |->        *)
(* sequence of [key, val] entries in insertion order, keys unique].        *)
(***************************************************************************)
EXTENDS Integers, Sequences, FiniteSets, TLC

VARIABLES text, pc, data, out

vars == <<text, pc, data, out>>

(***************************************************************************)
(* Strings                                                                 *)
(***************************************************************************)
Explode(s) == [i \in 1..Len(s) |-> SubSeq(s, i, i)]

\* The characters the regex class \s and str.strip() treat as whitespace.
Whitespace == {" ", "\n", "\t", "\r"}

\* The argument of text.strip(" -\n\t\r") in clean_json.
BorderChars == {" ", "-", "\n", "\t", "\r"}

\* The shortest run of dashes that re.sub(r"-{3,}", "", data) removes.
DashRunMin == 3

Dash == "-"

Min(S) == CHOOSE x \in S : \A y \in S : x <= y
Max(S) == CHOOSE x \in S : \A y \in S : x >= y

\* Length of the longest prefix of s made of characters of the set cs.
RunLen(s, cs) == Min({k \in 0..Len(s) : k = Len(s) \/ s[k + 1] \notin cs})

\* Length of the longest suffix of s made of characters of the set cs.
RunLenBack(s, cs) == Min({k \in 0..Len(s) : k = Len(s) \/ s[Len(s) - k] \notin cs})

Drop(s, n) == SubSeq(s, n + 1, Len(s))

\* Place in s where the maximal run of characters of cs holding place i begins.
RunStart(s, i, cs) == Min({j \in 1..i : \A k \in j..i : s[k] \in cs})

\* Place in s where the maximal run of characters of cs holding place i ends.
RunEnd(s, i, cs) == Max({j \in i..Len(s) : \A k \in i..j : s[k] \in cs})

\* A mark that is no character, for the places a substitution deletes.
Gone == ""

Present(c) == c # Gone

\* The result of a substitution: subs holds, place by place, the character
\* written for the character there, or Gone.
Rewrite(subs) == SelectSeq(subs, Present)

\* s.lstrip(cs), s.rstrip(cs), s.strip(cs)
LStrip(s, cs) == Drop(s, RunLen(s, cs))
RStrip(s, cs) == SubSeq(s, 1, Len(s) - RunLenBack(s, cs))
Strip(s, cs) == RStrip(LStrip(s, cs), cs)

\* re.sub(r"-{3,}", "", s): every maximal run of at least three dashes goes.
RemoveDashRuns(s) ==
    LET keep(i) == \/ s[i] # Dash
                   \/ RunEnd(s, i, {Dash}) - RunStart(s, i, {Dash}) + 1 < DashRunMin
        sub(i) == s[i]
    IN  Rewrite([i \in 1..Len(s) |-> IF keep(i) THEN sub(i) ELSE Gone])

\* re.sub(r"\s+", " ", s): every maximal whitespace run becomes one space.
CollapseSpace(s) ==
    LET keep(i) == s[i] \notin Whitespace \/ i = 1 \/ s[i - 1] \notin Whitespace
        sub(i) == IF s[i] \in Whitespace THEN " " ELSE s[i]
    IN  Rewrite([i \in 1..Len(s) |-> IF keep(i) THEN sub(i) ELSE Gone])

(***************************************************************************)
(* Values                                                                  *)
(***************************************************************************)
Str(s) == [t |-> "str", v |-> s]
Lst(xs) == [t |-> "list", v |-> xs]
Dct(es) == [t |-> "dict", v |-> es]
Entry(k, x) == [key |-> k, val |-> x]

\* Python truthiness of a str, list or dict: it is not empty.
Truthy(x) == Len(x.v) > 0

HasKey(es, k) == \E i \in 1..Len(es) : es[i].key = k

\* d[k] = x on an insertion-ordered dict: an existing key keeps its place.
DictSet(es, k, x) ==
    IF HasKey(es, k)
    THEN [i \in 1..Len(es) |-> IF es[i].key = k THEN Entry(k, x) ELSE es[i]]
    ELSE Append(es, Entry(k, x))

DictGet(es, k) == es[CHOOSE i \in 1..Len(es) : es[i].key = k].val

(***************************************************************************)
(* clean_json                                                              *)
(***************************************************************************)
\* Mutant of clean_str: the whitespace runs are left as they are.
CleanStrNoCollapse(s) == Strip(RemoveDashRuns(s), BorderChars)

\* The str branch: dash runs, then whitespace runs, then the border strip.
clean_str(s) == Strip(CollapseSpace(RemoveDashRuns(s)), BorderChars)

RECURSIVE clean_json(_)

RECURSIVE CleanListKeepEmptied(_)
\* Mutant of clean_list: the filter tests the element only, not its cleaned form.
CleanListKeepEmptied(xs) ==
    IF xs = <<>> THEN <<>>
    ELSE IF Truthy(Head(xs))
         THEN <<clean_json(Head(xs))>> \o CleanListKeepEmptied(Tail(xs))
         ELSE CleanListKeepEmptied(Tail(xs))

RECURSIVE CleanListFrom(_)
CleanListFrom(xs) ==
    IF xs = <<>> THEN <<>>
    ELSE IF Truthy(Head(xs)) /\ Truthy(clean_json(Head(xs)))
         THEN <<clean_json(Head(xs))>> \o CleanListFrom(Tail(xs))
         ELSE CleanListFrom(Tail(xs))

\* Mutant of clean_list: no filter at all, every element is cleaned and kept.
CleanListUnfiltered(xs) == [k \in 1..Len(xs) |-> clean_json(xs[k])]

\* The list branch: [clean_json(i) for i in data if i and clean_json(i)]
clean_list(xs) == CleanListFrom(xs)

RECURSIVE CleanDictFrom(_, _)
CleanDictFrom(es, acc) ==
    IF es = <<>> THEN acc
    ELSE CleanDictFrom(Tail(es),
             DictSet(acc, Strip(Head(es).key, Whitespace), clean_json(Head(es).val)))

RECURSIVE CleanDictPruned(_, _)
\* Mutant of clean_dict: entries whose cleaned value is falsy are dropped.
CleanDictPruned(es, acc) ==
    IF es = <<>> THEN acc
    ELSE CleanDictPruned(Tail(es),
             IF Truthy(clean_json(Head(es).val))
             THEN DictSet(acc, Strip(Head(es).key, Whitespace), clean_json(Head(es).val))
             ELSE acc)

CleanDictDroppingEmpty(es) == CleanDictPruned(es, <<>>)

\* The dict branch: {k.strip(): clean_json(v) for k, v in data.items()}
clean_dict(es) == CleanDictFrom(es, <<>>)

clean_json(d) ==
    IF d.t = "str" THEN Str(clean_str(d.v))
    ELSE IF d.t = "list" THEN Lst(clean_list(d.v))
    ELSE IF d.t = "dict" THEN Dct(clean_dict(d.v))
    ELSE d

(***************************************************************************)
(* Pattern matching helpers                                                *)
(***************************************************************************)
UpperChars == Explode("ABCDEFGHIJKLMNOPQRSTUVWXYZ")
LowerChars == Explode("abcdefghijklmnopqrstuvwxyz")
Digits == {"0", "1", "2", "3", "4", "5", "6", "7", "8", "9"}

\* The class [A-Za-z0-9] of is_separator_cell.
AlnumChars == {UpperChars[i] : i \in 1..Len(UpperChars)}
                  \cup {LowerChars[i] : i \in 1..Len(LowerChars)} \cup Digits

\* U+2022, the bullet dot: module text is ASCII, so "~" stands for it (and
\* no input of the model holds a tilde of its own).
BulletDot == "~"

\* The class [\-\*\u2022] of clean_line.
BulletChars == {"-", "*", BulletDot}

Lower(c) ==
    IF \E i \in 1..Len(UpperChars) : UpperChars[i] = c
    THEN LowerChars[CHOOSE i \in 1..Len(UpperChars) : UpperChars[i] = c]
    ELSE c

\* A literal under re.I: one set of accepted (lower-cased) characters per place.
Lit(s) == [i \in 1..Len(s) |-> {Lower(SubSeq(s, i, i))}]

\* Whether pattern pat (a sequence of character sets) matches s at place i,
\* ignoring case.
MatchFold(s, i, pat) ==
    /\ i >= 1
    /\ i + Len(pat) - 1 <= Len(s)
    /\ \A k \in 1..Len(pat) : Lower(s[i + k - 1]) \in pat[k]

\* Whether the case-sensitive literal lit (a sequence of characters) is at place i.
MatchAt(s, i, lit) ==
    /\ i >= 1
    /\ i + Len(lit) - 1 <= Len(s)
    /\ \A k \in 1..Len(lit) : s[i + k - 1] = lit[k]

Hashes == <<"#", "#", "#">>
Stars == <<"*", "*">>

\* Whether $ (without re.M) matches before place i: at the very end, or just
\* before a final newline.
AtDollar(s, i) == i = Len(s) + 1 \/ (i = Len(s) /\ s[i] = "\n")

(***************************************************************************)
(* Section headings: re.search(r"###\s*<Heading>(.*?)(?=###|$)", text,     *)
(* re.S | re.I)                                                            *)
(***************************************************************************)
ExecHeading == Lit("Executive Summary")
SysHeading == Lit("System") \o <<{"-", " "}>> \o Lit("Specific Analysis")
PlanHeading == Lit("Personalized Action Plan")
AlertsHeading == Lit("Interaction Alerts")
NormalHeading == Lit("Normal Ranges")
TableHeading == Lit("Tabular Mapping")

\* Mutant of HeadingEnd: any "###" line passes for the heading searched.
HeadingEndAnyName(s, i, heading) ==
    IF MatchAt(s, i, Hashes) THEN i + 3 + RunLen(Drop(s, i + 2), Whitespace) ELSE 0

\* Place after "###\s*<Heading>" when that matches at place i, else 0.
HeadingEnd(s, i, heading) ==
    IF MatchAt(s, i, Hashes)
    THEN LET j == i + 3 + RunLen(Drop(s, i + 2), Whitespace)
         IN  IF MatchFold(s, j, heading) THEN j + Len(heading) ELSE 0
    ELSE 0

HeadingStarts(s, heading) == {i \in 1..Len(s) : HeadingEnd(s, i, heading) > 0}

HasHeading(s, heading) == HeadingStarts(s, heading) # {}

\* First place e >= b where (?=###|$) holds: the lazy (.*?) stops there.
BlockEnd(s, b) ==
    Min({e \in b..(Len(s) + 1) : MatchAt(s, e, Hashes) \/ AtDollar(s, e)})

\* group(1) of the first match of a section pattern (the heading must be there).
SectionBlock(s, heading) ==
    LET b == HeadingEnd(s, Min(HeadingStarts(s, heading)), heading)
    IN  SubSeq(s, b, BlockEnd(s, b) - 1)

\* group(1) of the Tabular Mapping pattern, whose group is greedy and has no
\* lookahead: everything to the end of the text.
TableBlock(s) ==
    LET b == HeadingEnd(s, Min(HeadingStarts(s, TableHeading)), TableHeading)
    IN  Drop(s, b - 1)

(***************************************************************************)
(* clean_line and str.splitlines                                           *)
(***************************************************************************)
\* re.sub(r"[\-\*\u2022]+\s*", "", s): every bullet run, wherever it is, goes
\* together with the whitespace run after it.
RemoveBullets(s) ==
    LET afterBullet(i) ==
            /\ s[i] \in Whitespace
            /\ RunStart(s, i, Whitespace) > 1
            /\ s[RunStart(s, i, Whitespace) - 1] \in BulletChars
        keep(i) == s[i] \notin BulletChars /\ ~afterBullet(i)
        sub(i) == s[i]
    IN  Rewrite([i \in 1..Len(s) |-> IF keep(i) THEN sub(i) ELSE Gone])

clean_line(line) == RemoveBullets(Strip(line, Whitespace))

LineBreaks == {"\n", "\r"}

\* s.splitlines(): "\n", "\r" and "\r\n" end a line; no empty last line.
SplitLines(s) ==
    LET second(i) == s[i] = "\n" /\ i > 1 /\ s[i - 1] = "\r"
        breakAt(i) == s[i] \in LineBreaks /\ ~second(i)
        ends == SelectSeq([i \in 1..Len(s) |-> i], breakAt)
        after(i) == IF i < Len(s) /\ s[i] = "\r" /\ s[i + 1] = "\n"
                    THEN i + 2 ELSE i + 1
        start(k) == IF k = 1 THEN 1 ELSE after(ends[k - 1])
        n == Len(ends)
        last == IF n = 0 THEN s ELSE Drop(s, after(ends[n]) - 1)
    IN  [k \in 1..n |-> SubSeq(s, start(k), ends[k] - 1)]
            \o (IF last = <<>> THEN <<>> ELSE <<last>>)

RECURSIVE CleanLines(_)
\* [clean_line(a) for a in lines if clean_line(a)]
CleanLines(lines) ==
    IF lines = <<>> THEN <<>>
    ELSE IF clean_line(Head(lines)) # <<>>
         THEN <<Str(clean_line(Head(lines)))>> \o CleanLines(Tail(lines))
         ELSE CleanLines(Tail(lines))

\* The list-block extractor of lines 228 and 247.
ListBlock(block) == CleanLines(SplitLines(block))

(***************************************************************************)
(* Numbered list: re.findall(r"\d+\.\s*(.*?)\n", block)                    *)
(***************************************************************************)
NoMatch == [ok |-> FALSE]

\* A scan that finds no match at place i tries i + 1, i + 2, ...; no match
\* starts before the next character of the set cs the pattern begins with.
NextIn(s, i, cs) == Min({j \in (i + 1)..(Len(s) + 1) : j = Len(s) + 1 \/ s[j] \in cs})

\* The match of r"\d+\.\s*(.*?)\n" starting at place i, if there is one: cap is
\* group(1) and next the place after the match.  \s* is greedy and may run
\* over newlines; when no newline follows the text after it, the engine
\* backtracks into the whitespace run and the capture is empty.
PriorityMatch(s, i) ==
    IF i > Len(s) \/ s[i] \notin Digits THEN NoMatch
    ELSE LET p == i + RunLen(Drop(s, i - 1), Digits)
         IN  IF p > Len(s) \/ s[p] # "." THEN NoMatch
             ELSE LET r == p + 1 + RunLen(Drop(s, p), Whitespace)
                      nl == {e \in r..Len(s) : s[e] = "\n"}
                      wnl == {e \in (p + 1)..(r - 1) : s[e] = "\n"}
                  IN  IF nl # {}
                      THEN [ok |-> TRUE, cap |-> SubSeq(s, r, Min(nl) - 1),
                            next |-> Min(nl) + 1]
                      ELSE IF wnl # {}
                      THEN [ok |-> TRUE, cap |-> <<>>, next |-> Max(wnl) + 1]
                      ELSE NoMatch

RECURSIVE PrioritiesFrom(_, _)
PrioritiesFrom(s, i) ==
    IF i > Len(s) THEN <<>>
    ELSE LET m == PriorityMatch(s, i)
         IN  IF m.ok THEN <<m.cap>> \o PrioritiesFrom(s, m.next)
             ELSE PrioritiesFrom(s, NextIn(s, i, Digits))

Priorities(block) == PrioritiesFrom(block, 1)

\* [clean_line(p) for p in priorities]
TopPriorities(ps) == [k \in 1..Len(ps) |-> Str(clean_line(ps[k]))]

(***************************************************************************)
(* Key strengths: all that follows the first "**Key Strengths:**" marker   *)
(***************************************************************************)
StrengthsMarker == Explode("**Key Strengths:**")

StrengthsStarts(block) == {i \in 1..Len(block) : MatchAt(block, i, StrengthsMarker)}

StrengthsText(block) ==
    Drop(block, Min(StrengthsStarts(block)) + Len(StrengthsMarker) - 1)

(***************************************************************************)
(* parse_bold_entities:                                                    *)
(* re.compile(r"\*\*(.*?)\*\*(.*?)(?=\*\*|###|$)", re.S).finditer(block)   *)
(***************************************************************************)
BoldMatch(s, i) ==
    IF ~MatchAt(s, i, Stars) THEN NoMatch
    ELSE LET closes == {j \in (i + 2)..Len(s) : MatchAt(s, j, Stars)}
         IN  IF closes = {} THEN NoMatch
             ELSE LET j == Min(closes)
                      e == Min({x \in (j + 2)..(Len(s) + 1) :
                                   \/ MatchAt(s, x, Stars)
                                   \/ MatchAt(s, x, Hashes)
                                   \/ AtDollar(s, x)})
                  IN  [ok |-> TRUE, key |-> SubSeq(s, i + 2, j - 1),
                       val |-> SubSeq(s, j + 2, e - 1), next |-> e]

\* str.replace("\n", " ")
ReplaceNewlines(s) == [k \in 1..Len(s) |-> IF s[k] = "\n" THEN " " ELSE s[k]]

RECURSIVE BoldFrom(_, _, _)
BoldFrom(s, i, entities) ==
    IF i > Len(s) THEN entities
    ELSE LET m == BoldMatch(s, i)
         IN  IF m.ok
             THEN LET key == Strip(Strip(m.key, Whitespace), {":"})
                      val == CollapseSpace(ReplaceNewlines(Strip(m.val, Whitespace)))
                  IN  BoldFrom(s, m.next,
                          IF key # <<>> THEN DictSet(entities, key, Str(val))
                          ELSE entities)
             ELSE BoldFrom(s, NextIn(s, i, {"*"}), entities)

parse_bold_entities(block) == BoldFrom(block, 1, <<>>)

(***************************************************************************)
(* Normal ranges: re.findall(r"-\s*([^:]+):\s*([^\n]+)", normal_block)     *)
(***************************************************************************)
\* The match starting at place i.  Both \s* are greedy; when a greedy \s*
\* leaves nothing for the group after it, it gives one character back.
RangeMatch(s, i) ==
    IF i > Len(s) \/ s[i] # "-" THEN NoMatch
    ELSE LET w == RunLen(Drop(s, i), Whitespace)
             g == i + 1 + w
             colons == {q \in g..Len(s) : s[q] = ":"}
         IN  IF colons = {} \/ (Min(colons) = g /\ w = 0) THEN NoMatch
             ELSE LET q == Min(colons)
                      key == IF q > g THEN SubSeq(s, g, q - 1) ELSE <<s[g - 1]>>
                      r == q + 1 + RunLen(Drop(s, q), Whitespace)
                      nl == {e \in r..Len(s) : s[e] = "\n"}
                      e == IF nl = {} THEN Len(s) + 1 ELSE Min(nl)
                      back == {k \in (q + 1)..Len(s) : s[k] # "\n"}
                  IN  IF r <= Len(s)
                      THEN [ok |-> TRUE, key |-> key, val |-> SubSeq(s, r, e - 1),
                            next |-> e]
                      ELSE IF back # {}
                      THEN [ok |-> TRUE, key |-> key, val |-> <<s[Max(back)]>>,
                            next |-> Max(back) + 1]
                      ELSE NoMatch

RECURSIVE RangesFrom(_, _, _)
RangesFrom(s, i, ranges) ==
    IF i > Len(s) THEN ranges
    ELSE LET m == RangeMatch(s, i)
         IN  IF m.ok
             THEN RangesFrom(s, m.next,
                      DictSet(ranges, Strip(m.key, Whitespace),
                              Str(Strip(m.val, Whitespace))))
             ELSE RangesFrom(s, NextIn(s, i, {"-"}), ranges)

(***************************************************************************)
(* Table rows: five cells \s*([^|]+)\s* between six pipes                  *)
(***************************************************************************)
TableColumns == 5

\* Place of the first pipe after place i, or 0.
NextPipe(s, i) ==
    IF i = 0 THEN 0
    ELSE LET ps == {j \in (i + 1)..Len(s) : s[j] = "|"}
         IN  IF ps = {} THEN 0 ELSE Min(ps)

RECURSIVE PipeAfter(_, _, _)
\* Place of the k-th pipe after place i, or 0.
PipeAfter(s, i, k) == IF k = 0 THEN i ELSE NextPipe(s, PipeAfter(s, i, k - 1))

\* The match of table_pattern starting at place i.  A cell is the run between
\* two neighbouring pipes, newlines included, and may not be empty; group(k)
\* differs from that run by whitespace only, which .strip() then removes.
TableMatch(s, i) ==
    IF i > Len(s) \/ s[i] # "|" THEN NoMatch
    ELSE IF PipeAfter(s, i, TableColumns) = 0 THEN NoMatch
    ELSE IF \E k \in 1..TableColumns :
                PipeAfter(s, i, k) = PipeAfter(s, i, k - 1) + 1 THEN NoMatch
    ELSE [ok |-> TRUE,
          cells |-> [k \in 1..TableColumns |->
                        SubSeq(s, PipeAfter(s, i, k - 1) + 1, PipeAfter(s, i, k) - 1)],
          next |-> PipeAfter(s, i, TableColumns) + 1]

RECURSIVE TableMatches(_, _)
\* re.findall(table_pattern, table_block), each cell already .strip()ped.
TableMatches(s, i) ==
    IF i > Len(s) THEN <<>>
    ELSE LET m == TableMatch(s, i)
         IN  IF m.ok
             THEN <<[k \in 1..TableColumns |-> Strip(m.cells[k], Whitespace)]>>
                      \o TableMatches(s, m.next)
             ELSE TableMatches(s, NextIn(s, i, {"|"}))

is_separator_cell(c) == ~\E k \in 1..Len(c) : c[k] \in AlnumChars

\* Mutant of SkipRow: a row with any separator cell is skipped.
SkipRowAnySeparator(cells) ==
    \/ \A k \in 1..Len(cells) : cells[k] = <<>>
    \/ \E k \in 1..Len(cells) : is_separator_cell(cells[k])

\* The two `continue` tests of the row loop.
SkipRow(cells) ==
    \/ ~\E k \in 1..Len(cells) : cells[k] # <<>>
    \/ \A k \in 1..Len(cells) : is_separator_cell(cells[k])

K(name) == Explode(name)

RowKeys == <<K("biomarker"), K("value"), K("status"), K("insight"),
             K("reference_range")>>

RowDict(cells) == Dct([k \in 1..TableColumns |-> Entry(RowKeys[k], Str(cells[k]))])

RECURSIVE TableRows(_)
TableRows(ms) ==
    IF ms = <<>> THEN <<>>
    ELSE IF SkipRow(Head(ms)) THEN TableRows(Tail(ms))
    ELSE <<RowDict(Head(ms))>> \o TableRows(Tail(ms))

(***************************************************************************)
(* parse_medical_report, one section at a time                             *)
(***************************************************************************)
GetField(doc, name) == DictGet(doc.v, K(name))
SetField(doc, name, x) == Dct(DictSet(doc.v, K(name), x))

\* The record built at the top of parse_medical_report.
DefaultData ==
    Dct(<<Entry(K("executive_summary"),
                Dct(<<Entry(K("top_priorities"), Lst(<<>>)),
                      Entry(K("key_strengths"), Lst(<<>>))>>)),
          Entry(K("system_analysis"), Dct(<<>>)),
          Entry(K("personalized_action_plan"), Dct(<<>>)),
          Entry(K("interaction_alerts"), Lst(<<>>)),
          Entry(K("normal_ranges"), Dct(<<>>)),
          Entry(K("biomarker_table"), Lst(<<>>))>>)

ExecutiveSummaryStep(s, doc) ==
    IF ~HasHeading(s, ExecHeading) THEN doc
    ELSE LET block == SectionBlock(s, ExecHeading)
             priorities == Priorities(block)
             es0 == GetField(doc, "executive_summary")
             es1 == IF priorities # <<>>
                    THEN SetField(es0, "top_priorities", Lst(TopPriorities(priorities)))
                    ELSE es0
             es2 == IF StrengthsStarts(block) # {}
                    THEN SetField(es1, "key_strengths",
                                  Lst(ListBlock(StrengthsText(block))))
                    ELSE es1
         IN  SetField(doc, "executive_summary", es2)

SystemAnalysisStep(s, doc) ==
    IF ~HasHeading(s, SysHeading) THEN doc
    ELSE SetField(doc, "system_analysis",
                  Dct(parse_bold_entities(SectionBlock(s, SysHeading))))

ActionPlanStep(s, doc) ==
    IF ~HasHeading(s, PlanHeading) THEN doc
    ELSE SetField(doc, "personalized_action_plan",
                  Dct(parse_bold_entities(SectionBlock(s, PlanHeading))))

InteractionAlertsStep(s, doc) ==
    IF ~HasHeading(s, AlertsHeading) THEN doc
    ELSE SetField(doc, "interaction_alerts",
                  Lst(ListBlock(SectionBlock(s, AlertsHeading))))

NormalRangesStep(s, doc) ==
    IF ~HasHeading(s, NormalHeading) THEN doc
    ELSE SetField(doc, "normal_ranges",
                  Dct(RangesFrom(SectionBlock(s, NormalHeading), 1,
                                 GetField(doc, "normal_ranges").v)))

TabularMappingStep(s, doc) ==
    IF ~HasHeading(s, TableHeading) THEN doc
    ELSE SetField(doc, "biomarker_table",
                  Lst(GetField(doc, "biomarker_table").v
                          \o TableRows(TableMatches(TableBlock(s), 1))))

\* The whole function, run alone.
parse_medical_report(s) ==
    TabularMappingStep(s,
      NormalRangesStep(s,
        InteractionAlertsStep(s,
          ActionPlanStep(s,
            SystemAnalysisStep(s,
              ExecutiveSummaryStep(s, DefaultData))))))

(***************************************************************************)
(* The calls.  Every variable is a function of the call; a call owns the   *)
(* record it builds.                                                       *)
(***************************************************************************)
Calls == DOMAIN pc

\* Mutant of LocalData: one module-level record shared by every call.
SharedData(c) == 1

\* `data = {...}` is a local of parse_medical_report: a fresh record per call.
LocalData(c) == c

Step(c, from, to, doc) ==
    /\ pc[c] = from
    /\ pc' = [pc EXCEPT ![c] = to]
    /\ data' = [data EXCEPT ![LocalData(c)] = doc]
    /\ UNCHANGED <<text, out>>

Begin(c) == Step(c, "start", "exec", DefaultData)

ExecutiveSummary(c) ==
    Step(c, "exec", "sys", ExecutiveSummaryStep(text[c], data[LocalData(c)]))

SystemAnalysis(c) ==
    Step(c, "sys", "plan", SystemAnalysisStep(text[c], data[LocalData(c)]))

ActionPlan(c) ==
    Step(c, "plan", "alerts", ActionPlanStep(text[c], data[LocalData(c)]))

InteractionAlerts(c) ==
    Step(c, "alerts", "normal", InteractionAlertsStep(text[c], data[LocalData(c)]))

NormalRanges(c) ==
    Step(c, "normal", "table", NormalRangesStep(text[c], data[LocalData(c)]))

TabularMapping(c) ==
    Step(c, "table", "parsed", TabularMappingStep(text[c], data[LocalData(c)]))

\* cleaned_output = clean_json(parsed_output): a new value, the argument is
\* left as it is.
Clean(c) ==
    /\ pc[c] = "parsed"
    /\ pc' = [pc EXCEPT ![c] = "done"]
    /\ out' = [out EXCEPT ![c] = clean_json(data[LocalData(c)])]
    /\ UNCHANGED <<text, data>>

\* clean_json applied again, to its own result.
Reclean(c) ==
    /\ pc[c] = "done"
    /\ pc' = [pc EXCEPT ![c] = "redone"]
    /\ out' = [out EXCEPT ![c] = clean_json(out[c])]
    /\ UNCHANGED <<text, data>>

Next ==
    \E c \in Calls :
        \/ Begin(c)
        \/ ExecutiveSummary(c)
        \/ SystemAnalysis(c)
        \/ ActionPlan(c)
        \/ InteractionAlerts(c)
        \/ NormalRanges(c)
        \/ TabularMapping(c)
        \/ Clean(c)

None == Str(<<>>)

\* One call about to parse the text s.
InitWith(texts) ==
    /\ text \in [{1} -> texts]
    /\ pc = [c \in {1} |-> "start"]
    /\ data = [c \in {1} |-> None]
    /\ out = [c \in {1} |-> None]

(***************************************************************************)
(* clean_json on arbitrary values: strings, lists and mappings             *)
(***************************************************************************)
MaxStrLen == 4
NestDepth == 2

CleanAlphabet == {"-", " ", "\n", "a"}

Strings(n) == UNION {[1..k -> CleanAlphabet] : k \in 0..n}

NestLeaves ==
    {Str(<<>>), Str(<<"a">>), Str(<<"-">>), Str(<<" ", "a">>), Lst(<<>>), Dct(<<>>)}

Fillers == {Str(<<>>), Str(<<"a">>)}

NestKeys == {<<"a">>, <<" ", "a">>, <<"b">>}

\* Two keys of one mapping: keys that trim to the same key, in both orders,
\* and keys that stay apart.
KeyPairs == {<<<<"a">>, <<" ", "a">>>>, <<<<" ", "a">>, <<"a">>>>, <<<<"a">>, <<"b">>>>}

\* The lists and mappings that hold x directly.
Wrap(x) ==
    {Lst(<<x>>)}
        \cup {Lst(<<x, f>>) : f \in Fillers}
        \cup {Lst(<<f, x>>) : f \in Fillers}
        \cup {Dct(<<Entry(k, x)>>) : k \in NestKeys}
        \cup UNION {{Dct(<<Entry(k1, x), Entry(k2, f)>>),
                     Dct(<<Entry(k1, f), Entry(k2, x)>>)} :
                        <<k1, k2>> \in KeyPairs, f \in {Str(<<>>)}}

RECURSIVE Nested(_)
Nested(n) ==
    IF n = 0 THEN NestLeaves
    ELSE Nested(n - 1) \cup UNION {Wrap(x) : x \in Nested(n - 1)}

CleanInputs(len, depth) == {Str(s) : s \in Strings(len)} \cup Nested(depth)

InitClean ==
    /\ text = [c \in {1} |-> <<>>]
    /\ pc = [c \in {1} |-> "parsed"]
    /\ data \in [{1} -> CleanInputs(MaxStrLen, NestDepth)]
    /\ out = [c \in {1} |-> None]

NextClean == \E c \in Calls : Clean(c) \/ Reclean(c)

SpecClean == InitClean /\ [][NextClean]_vars

IsList(x) == x.t = "list"
IsDict(x) == x.t = "dict"
IsStr(x) == x.t = "str"

\* C1: clean_json is idempotent: cleaning the cleaned value again (what out
\* holds once Reclean has run) gives the value one cleaning of the input gives.
C1_Idempotent ==
    \A c \in Calls : pc[c] = "redone" => out[c] = clean_json(data[LocalData(c)])

\* C1 witness: a second cleaning has run on a list that the first cleaning
\* changed and did not empty.
C1_Witness ==
    \E c \in Calls :
        /\ pc[c] = "redone"
        /\ IsList(data[c]) /\ Len(out[c].v) > 0
        /\ out[c] # data[c]

RECURSIVE ListsHoldNoFalsy(_)
\* Every list inside d, at any depth, has only truthy elements.
ListsHoldNoFalsy(d) ==
    IF IsList(d)
    THEN \A i \in 1..Len(d.v) : Truthy(d.v[i]) /\ ListsHoldNoFalsy(d.v[i])
    ELSE IF IsDict(d) THEN \A i \in 1..Len(d.v) : ListsHoldNoFalsy(d.v[i].val)
    ELSE TRUE

RECURSIVE NothingFalsy(_)
\* Every list and every mapping inside d, at any depth, has only truthy
\* elements and values.
NothingFalsy(d) ==
    IF IsList(d)
    THEN \A i \in 1..Len(d.v) : Truthy(d.v[i]) /\ NothingFalsy(d.v[i])
    ELSE IF IsDict(d)
    THEN \A i \in 1..Len(d.v) : Truthy(d.v[i].val) /\ NothingFalsy(d.v[i].val)
    ELSE TRUE

\* C4 as stated: no list and no mapping produced by clean_json holds a falsy
\* element or value.
C4_NoFalsyInListsAndMappings ==
    \A c \in Calls : pc[c] = "done" => NothingFalsy(out[c])

\* C4 amended: every list produced by clean_json, at any depth, holds no
\* falsy element, and a list all of whose elements are removed is the empty
\* list; a mapping keeps every entry, so it has as many entries as the input
\* has distinct trimmed keys, falsy values included.
C4_NoFalsyInLists ==
    \A c \in Calls :
        pc[c] = "done" =>
            /\ ListsHoldNoFalsy(out[c])
            /\ IsList(data[c]) /\ (\A i \in 1..Len(data[c].v) :
                                      ~Truthy(clean_json(data[c].v[i])))
                   => out[c] = Lst(<<>>)
            /\ IsDict(data[c]) =>
                   Len(out[c].v) =
                       Cardinality({Strip(data[c].v[i].key, Whitespace) :
                                       i \in 1..Len(data[c].v)})

\* C4 witness: a two-element list lost exactly one element, and the one that
\* stays is a mapping whose value is falsy.
C4_Witness ==
    \E c \in Calls :
        /\ pc[c] = "done"
        /\ IsList(data[c]) /\ Len(data[c].v) = 2 /\ Len(out[c].v) = 1
        /\ IsDict(out[c].v[1]) /\ Len(out[c].v[1].v) = 1
        /\ ~Truthy(out[c].v[1].v[1].val)

\* The trimmed keys of the entries es, each once, in order of first occurrence.
TrimmedKeys(es) ==
    LET ks == [i \in 1..Len(es) |-> Strip(es[i].key, Whitespace)]
        first(i) == \A j \in 1..(i - 1) : ks[j] # ks[i]
        firsts == SelectSeq([i \in 1..Len(es) |-> i], first)
    IN  [k \in 1..Len(firsts) |-> ks[firsts[k]]]

\* The value of the last entry of es whose trimmed key is k.
LastValue(es, k) ==
    es[Max({i \in 1..Len(es) : Strip(es[i].key, Whitespace) = k})].val

NonEmptyDict(x) == IsDict(x) /\ Truthy(x)

\* C5: cleaning a mapping drops no entry because of its value.  The result
\* has one entry per trimmed input key, in insertion order, and its value is
\* the cleaned input value, empty or not (when two input keys trim to the
\* same key, the cleaned value of the later one); and every non-empty mapping
\* that is an element of a list is, cleaned, still an element of the cleaned
\* list, in order.
C5_MappingKeepsEntries ==
    \A c \in Calls :
        pc[c] = "done" =>
            /\ IsDict(data[c]) =>
                   /\ [i \in 1..Len(out[c].v) |-> out[c].v[i].key]
                          = TrimmedKeys(data[c].v)
                   /\ \A i \in 1..Len(out[c].v) :
                          out[c].v[i].val
                              = clean_json(LastValue(data[c].v, out[c].v[i].key))
            /\ IsList(data[c]) =>
                   LET kept == SelectSeq(data[c].v, NonEmptyDict)
                   IN  SelectSeq(out[c].v, IsDict)
                           = [i \in 1..Len(kept) |-> clean_json(kept[i])]

\* C5 witness: a list held a mapping whose only value cleans to the empty
\* string, and the cleaned list still holds that mapping with its entry.
C5_Witness ==
    \E c \in Calls :
        /\ pc[c] = "done"
        /\ IsList(data[c])
        /\ \E i \in 1..Len(data[c].v) :
               /\ IsDict(data[c].v[i]) /\ Len(data[c].v[i].v) = 1
               /\ data[c].v[i].v[1].val = Str(<<"-">>)
               /\ \E j \in 1..Len(out[c].v) :
                      out[c].v[j] = Dct(<<Entry(Strip(data[c].v[i].v[1].key, Whitespace),
                                                Str(<<>>))>>)

(***************************************************************************)
(* The pipeline on reports made of sections                                *)
(***************************************************************************)
MaxSections == 3

RECURSIVE Concat(_)
Concat(ss) == IF ss = <<>> THEN <<>> ELSE Head(ss) \o Concat(Tail(ss))

\* Pieces a report is made of: the six sections, each a heading line and a
\* body of whole lines, a second spelling of one heading, and a line that
\* belongs to no section and names a heading without the "###".
Chunks ==
    { Explode("### Executive Summary\n1. Sleep  more --\n2. Eat\n**Key Strengths:**\n- good  heart\n"),
      Explode("###executive summary\n3. Walk\n"),
      Explode("### System-Specific Analysis\n**Liver:**\nok ---- fine\n"),
      Explode("### Personalized Action Plan\n**Diet**  - less sugar -\n"),
      Explode("### Interaction Alerts\n- a-b  c\n| w | 1 | ok | x | 2 |\n"),
      Explode("### Normal Ranges\n- Urea: 17 -- 43 \n"),
      Explode("### Tabular Mapping\n| Alb  min | 4 | ok | -- | 3-5 |\n| --- | --- | --- | --- | --- |\n"),
      Explode("Normal Ranges: none ---\n") }

Reports(n) == {Concat(ss) : ss \in UNION {[1..k -> Chunks] : k \in 0..n}}

Init == InitWith(Reports(MaxSections))

Spec == Init /\ [][Next]_vars

Parsed(c) == data[LocalData(c)]

FieldNames ==
    <<"executive_summary", "system_analysis", "personalized_action_plan",
      "interaction_alerts", "normal_ranges", "biomarker_table">>

\* Whether s holds the heading: "###", then whitespace only, then its words
\* in any case.
Names(s, heading) ==
    \E i \in 1..Len(s) :
        /\ MatchAt(s, i, Hashes)
        /\ \E j \in (i + 3)..Len(s) :
               /\ \A k \in (i + 3)..(j - 1) : s[k] \in Whitespace
               /\ MatchFold(s, j, heading)

EmptySummary ==
    Dct(<<Entry(K("top_priorities"), Lst(<<>>)), Entry(K("key_strengths"), Lst(<<>>))>>)

\* C2: parse_medical_report ends for every text with a document that has the
\* six fields, in order; a field whose heading the text does not hold has its
\* default, and the empty text gives the default document.
C2_DefaultsWhenHeadingAbsent ==
    \A c \in Calls :
        pc[c] = "parsed" =>
            LET doc == Parsed(c)
                s == text[c]
            IN  /\ IsDict(doc)
                /\ [i \in 1..Len(doc.v) |-> doc.v[i].key]
                       = [i \in 1..Len(FieldNames) |-> K(FieldNames[i])]
                /\ ~Names(s, ExecHeading)
                       => GetField(doc, "executive_summary") = EmptySummary
                /\ ~Names(s, SysHeading) => GetField(doc, "system_analysis") = Dct(<<>>)
                /\ ~Names(s, PlanHeading)
                       => GetField(doc, "personalized_action_plan") = Dct(<<>>)
                /\ ~Names(s, AlertsHeading)
                       => GetField(doc, "interaction_alerts") = Lst(<<>>)
                /\ ~Names(s, NormalHeading) => GetField(doc, "normal_ranges") = Dct(<<>>)
                /\ ~Names(s, TableHeading) => GetField(doc, "biomarker_table") = Lst(<<>>)
                /\ s = <<>> =>
                       doc = Dct(<<Entry(K("executive_summary"), EmptySummary),
                                   Entry(K("system_analysis"), Dct(<<>>)),
                                   Entry(K("personalized_action_plan"), Dct(<<>>)),
                                   Entry(K("interaction_alerts"), Lst(<<>>)),
                                   Entry(K("normal_ranges"), Dct(<<>>)),
                                   Entry(K("biomarker_table"), Lst(<<>>))>>)

\* C2 witness: a parsed report that holds some sections and lacks others: the
\* alerts were extracted, the table and the summary are at their defaults.
C2_Witness ==
    \E c \in Calls :
        /\ pc[c] = "parsed"
        /\ ~Names(text[c], TableHeading) /\ ~Names(text[c], ExecHeading)
        /\ Names(text[c], AlertsHeading)
        /\ GetField(Parsed(c), "interaction_alerts") # Lst(<<>>)
        /\ GetField(Parsed(c), "biomarker_table") = Lst(<<>>)

RECURSIVE StringsOf(_)
\* The strings that are values of d: d itself, the elements of lists and the
\* values of mappings, at any depth.
StringsOf(d) ==
    IF IsStr(d) THEN {d.v}
    ELSE IF IsList(d) THEN UNION {StringsOf(d.v[i]) : i \in 1..Len(d.v)}
    ELSE UNION {StringsOf(d.v[i].val) : i \in 1..Len(d.v)}

\* No run of three dashes, no border character at either end, and no
\* whitespace but single spaces.
Tidy(s) ==
    /\ ~\E i \in 1..(Len(s) - 2) : s[i] = Dash /\ s[i + 1] = Dash /\ s[i + 2] = Dash
    /\ s # <<>> => s[1] \notin BorderChars /\ s[Len(s)] \notin BorderChars
    /\ \A i \in 1..Len(s) :
           s[i] \in Whitespace => s[i] = " " /\ (i < Len(s) => s[i + 1] \notin Whitespace)

\* C3: in clean_json(parse_medical_report(text)) every string value is tidy:
\* no run of 3 or more dashes, no border character first or last, no
\* whitespace run longer than one space.
C3_ValuesAreTidy ==
    \A c \in Calls : pc[c] = "done" => \A s \in StringsOf(out[c]) : Tidy(s)

\* C3 witness: the parsed document held a value with a dash run, one with a
\* doubled space and one with a dash at its end, and it has been cleaned.
C3_Witness ==
    \E c \in Calls :
        /\ pc[c] = "done"
        /\ \E s \in StringsOf(Parsed(c)) : RemoveDashRuns(s) # s
        /\ \E s \in StringsOf(Parsed(c)) : CollapseSpace(s) # s
        /\ \E s \in StringsOf(Parsed(c)) : s # <<>> /\ s[Len(s)] = Dash

(***************************************************************************)
(* Order of the sections                                                   *)
(***************************************************************************)
AllHeadings ==
    <<ExecHeading, SysHeading, PlanHeading, AlertsHeading, NormalHeading, TableHeading>>

\* The places where a section begins.
SectionStarts(s) == SelectSeq([i \in 1..Len(s) |-> i], LAMBDA i : MatchAt(s, i, Hashes))

\* The sections of s, each from its "###" to the next one or to the end.
SectionsOf(s) ==
    LET st == SectionStarts(s)
    IN  [k \in 1..Len(st) |->
            SubSeq(s, st[k], IF k < Len(st) THEN st[k + 1] - 1 ELSE Len(s))]

\* The field (an index of FieldNames) that section sec is the source of, or 0.
FieldOf(sec) ==
    IF \E f \in 1..Len(AllHeadings) : HeadingEnd(sec, 1, AllHeadings[f]) > 0
    THEN CHOOSE f \in 1..Len(AllHeadings) : HeadingEnd(sec, 1, AllHeadings[f]) > 0
    ELSE 0

\* s is made of named sections only, no two of them with the same heading.
MadeOfSections(s) ==
    LET secs == SectionsOf(s)
    IN  /\ Len(secs) > 0
        /\ Concat(secs) = s
        /\ \A k \in 1..Len(secs) : FieldOf(secs[k]) > 0 /\ secs[k][Len(secs[k])] = "\n"
        /\ \A k, l \in 1..Len(secs) : k # l => FieldOf(secs[k]) # FieldOf(secs[l])

Reorderings(n) == {f \in [1..n -> 1..n] : \A i, j \in 1..n : i # j => f[i] # f[j]}

Without(ss, i) == SubSeq(ss, 1, i - 1) \o SubSeq(ss, i + 1, Len(ss))

\* C8: for a text made of named sections, any reordering of the sections gives
\* the same parse_medical_report result, and removing one section changes no
\* field but that section's own.
C8_OrderInsensitive ==
    \A c \in Calls :
        pc[c] = "parsed" /\ MadeOfSections(text[c]) =>
            LET secs == SectionsOf(text[c])
            IN  /\ \A f \in Reorderings(Len(secs)) :
                       parse_medical_report(Concat([k \in 1..Len(secs) |-> secs[f[k]]]))
                           = Parsed(c)
                /\ \A i \in 1..Len(secs) : \A g \in 1..Len(FieldNames) :
                       g # FieldOf(secs[i]) =>
                           GetField(parse_medical_report(Concat(Without(secs, i))),
                                    FieldNames[g])
                               = GetField(Parsed(c), FieldNames[g])

(***************************************************************************)
(* Concurrent calls                                                        *)
(***************************************************************************)
NumCalls == 2

ConcurrentInputs ==
    { Explode("### Executive Summary\n1. Sleep\n### Interaction Alerts\n- a --\n"),
      Explode("### Tabular Mapping\n| Alb | 4 | ok | -- | 3-5 |\n### Normal Ranges\n- K: 1\n"),
      <<>> }

InitConcurrent ==
    /\ text \in [1..NumCalls -> ConcurrentInputs]
    /\ pc = [c \in 1..NumCalls |-> "start"]
    /\ data = [c \in 1..NumCalls |-> None]
    /\ out = [c \in 1..NumCalls |-> None]

SpecConcurrent == InitConcurrent /\ [][Next]_vars

\* The record of a call that runs alone, when it stands at place p.
Alone(s, p) ==
    IF p = "start" THEN None
    ELSE IF p = "exec" THEN DefaultData
    ELSE IF p = "sys" THEN ExecutiveSummaryStep(s, DefaultData)
    ELSE IF p = "plan" THEN SystemAnalysisStep(s, ExecutiveSummaryStep(s, DefaultData))
    ELSE IF p = "alerts"
    THEN ActionPlanStep(s, SystemAnalysisStep(s, ExecutiveSummaryStep(s, DefaultData)))
    ELSE IF p = "normal"
    THEN InteractionAlertsStep(s,
             ActionPlanStep(s, SystemAnalysisStep(s, ExecutiveSummaryStep(s, DefaultData))))
    ELSE IF p = "table"
    THEN NormalRangesStep(s,
             InteractionAlertsStep(s,
                 ActionPlanStep(s,
                     SystemAnalysisStep(s, ExecutiveSummaryStep(s, DefaultData)))))
    ELSE parse_medical_report(s)

\* C9: under any interleaving of the calls, each call's record is at every
\* step the one it has when the call runs alone, its result is
\* clean_json(parse_medical_report(text)), and clean_json leaves the parsed
\* record as it was.
C9_CallsIndependent ==
    \A c \in Calls :
        /\ Parsed(c) = Alone(text[c], pc[c])
        /\ pc[c] = "done" => out[c] = clean_json(parse_medical_report(text[c]))

\* C9 witness: one call has finished while another, on a different text, is
\* in the middle of its parse, and both records are filled.
C9_Witness ==
    \E c, d \in Calls :
        /\ c # d /\ text[c] # text[d]
        /\ pc[c] = "done" /\ pc[d] = "normal"
        /\ out[c] # clean_json(DefaultData)
        /\ Parsed(d) # DefaultData

(***************************************************************************)
(* The table extractor on blocks of pipe rows                              *)
(***************************************************************************)
MaxRows == 2

TablePrefix == Explode("### Tabular Mapping\n")

\* A cell with a letter, a cell of separator dashes, a cell of blanks.
CellKinds == {Explode(" a "), Explode("--"), Explode(" ")}

\* "|c1|c2|c3|c4|c5|\n" for every choice of the five cells.
RowOf(cells) == Concat([k \in 1..TableColumns |-> <<"|">> \o cells[k]]) \o <<"|", "\n">>

AnyRows == {RowOf(cells) : cells \in [1..TableColumns -> CellKinds]}

\* A header row, a markdown separator row and a row one cell short.
FixedRows ==
    { Explode("| Biomarker | Value | Status | Insight | Reference Range |\n"),
      Explode("| :--- | --- | --- | --- | ---: |\n"),
      Explode("| x | 1 | ok | y |\n") }

TableTexts(n) ==
    {TablePrefix \o Concat(rs) \o r :
        rs \in UNION {[1..k -> FixedRows] : k \in 0..n},
        r \in AnyRows \cup {<<>>}}

InitTable == InitWith(TableTexts(MaxRows))

SpecTable == InitTable /\ [][Next]_vars

\* What the claim asks of a matched row for it to be emitted.
Emitted(cells) ==
    /\ \E k \in 1..Len(cells) : cells[k] # <<>>
    /\ \E k \in 1..Len(cells) : \E j \in 1..Len(cells[k]) : cells[k][j] \in AlnumChars

\* C6: biomarker_table holds, in scan order and with trimmed cells, exactly
\* the matched five-cell rows that have a non-empty cell and a cell with an
\* alphanumeric character.
C6_RowsEmitted ==
    \A c \in Calls :
        pc[c] = "parsed" /\ Names(text[c], TableHeading) =>
            LET rows == SelectSeq(TableMatches(TableBlock(text[c]), 1), Emitted)
                table == GetField(Parsed(c), "biomarker_table").v
            IN  /\ table = [k \in 1..Len(rows) |-> RowDict(rows[k])]
                /\ \A k \in 1..Len(table) : \A j \in 1..TableColumns :
                       /\ table[k].v[j].key = RowKeys[j]
                       /\ Strip(table[k].v[j].val.v, Whitespace) = table[k].v[j].val.v

\* C6 witness: the header row and another row with a letter were emitted, in
\* that order, and a matched row without any letter or digit was not.
C6_Witness ==
    \E c \in Calls :
        /\ pc[c] = "parsed"
        /\ LET ms == TableMatches(TableBlock(text[c]), 1)
               table == GetField(Parsed(c), "biomarker_table").v
           IN  /\ Len(ms) = 3 /\ Len(table) = 2
               /\ table[1].v[1].val.v = Explode("Biomarker")
               /\ table[2].v[1].val.v = <<>>

(***************************************************************************)
(* The line extractors on blocks of list lines                             *)
(***************************************************************************)
MaxLinePieces == 3

LinePrefixes ==
    { Explode("### Executive Summary\n"),
      Explode("### Executive Summary\n**Key Strengths:**\n"),
      Explode("### Interaction Alerts\n") }

LinePieces ==
    { Explode("1. Sleep"), Explode("2. Low-fat"), Explode("- a-b"), Explode("* x *y"),
      <<"\n">>, <<" ">>, <<BulletDot, " ">> }

LineTexts(n) ==
    {pre \o Concat(ps) :
        pre \in LinePrefixes,
        ps \in UNION {[1..k -> LinePieces] : k \in 0..n}}

InitLines == InitWith(LineTexts(MaxLinePieces))

SpecLines == InitLines /\ [][Next]_vars

\* The body of a section as the specification has it: from the end of the
\* heading to the next "###" or to the end of the text.
BodyOf(s, heading) ==
    LET b == HeadingEnd(s, Min(HeadingStarts(s, heading)), heading)
        e == Min({x \in b..(Len(s) + 1) : x = Len(s) + 1 \/ MatchAt(s, x, Hashes)})
    IN  SubSeq(s, b, e - 1)

\* A line with its leading bullet glyphs and its surrounding whitespace
\* removed, and nothing else.
LeadingStripped(line) == RStrip(LStrip(line, BulletChars \cup Whitespace), Whitespace)

\* Whether a line is "<integer>. <text>", and its text.
IsNumbered(line) ==
    LET n == RunLen(line, Digits)
    IN  n > 0 /\ n < Len(line) /\ line[n + 1] = "."

NumberedText(line) == LeadingStripped(Drop(line, RunLen(line, Digits) + 1))

\* C7: top_priorities is, in order, the decoration-stripped text of every
\* line "<integer>. <text>" of the Executive Summary body, the last line
\* included, and nothing else.
C7_EveryNumberedLine ==
    \A c \in Calls :
        pc[c] = "parsed" /\ Names(text[c], ExecHeading) =>
            LET lines == SelectSeq(SplitLines(BodyOf(text[c], ExecHeading)), IsNumbered)
            IN  GetField(GetField(Parsed(c), "executive_summary"), "top_priorities").v
                    = [k \in 1..Len(lines) |-> Str(NumberedText(lines[k]))]

NotBlank(line) == LeadingStripped(line) # <<>>

\* The items the claim asks of a block of list lines.
ListItems(block) ==
    LET lines == SelectSeq(SplitLines(block), NotBlank)
    IN  [k \in 1..Len(lines) |-> Str(LeadingStripped(lines[k]))]

\* C10: interaction_alerts and key_strengths hold, in order, one item per
\* line that is not empty once stripped, and the item is the line without
\* its leading bullet glyphs and surrounding whitespace, its interior as it
\* was.
C10_InteriorUnchanged ==
    \A c \in Calls :
        pc[c] = "parsed" =>
            /\ Names(text[c], AlertsHeading) =>
                   GetField(Parsed(c), "interaction_alerts").v
                       = ListItems(BodyOf(text[c], AlertsHeading))
            /\ Names(text[c], ExecHeading)
                 /\ StrengthsStarts(BodyOf(text[c], ExecHeading)) # {} =>
                   GetField(GetField(Parsed(c), "executive_summary"), "key_strengths").v
                       = ListItems(StrengthsText(BodyOf(text[c], ExecHeading)))

(***************************************************************************)
(* normal_ranges on blocks of key-value lines                              *)
(***************************************************************************)
MaxRangeLines == 3

\* A well-shaped line, a line without a colon, a line with two colons, a
\* line with an empty value, a second well-shaped line and an empty line.
RangeLines ==
    { Explode("- K: 1\n"), Explode("- Urea\n"), Explode("- a: b: c\n"),
      Explode("- E:\n"), Explode("- L: 2-4\n"), <<"\n">> }

RangeTexts(n) ==
    {Explode("### Normal Ranges\n") \o Concat(ls) :
        ls \in UNION {[1..k -> RangeLines] : k \in 0..n}}

InitRanges == InitWith(RangeTexts(MaxRangeLines))

SpecRanges == InitRanges /\ [][Next]_vars

ColonsOf(line) == {q \in 1..Len(line) : line[q] = ":"}

\* The key and the value of a line "- <key>: <value>" with one colon.
RangeKey(line) ==
    LET t == Strip(line, Whitespace)
    IN  Strip(SubSeq(t, 2, Min(ColonsOf(t)) - 1), Whitespace)

RangeValue(line) ==
    LET t == Strip(line, Whitespace)
    IN  Strip(Drop(t, Min(ColonsOf(t))), Whitespace)

\* A line of the exact shape "- <key>: <value>": a dash, one colon, and a
\* key and a value that are not empty.
IsRangeLine(line) ==
    LET t == Strip(line, Whitespace)
    IN  /\ t # <<>> /\ t[1] = "-"
        /\ Cardinality(ColonsOf(t)) = 1
        /\ RangeKey(line) # <<>> /\ RangeValue(line) # <<>>

RECURSIVE RangesOfLines(_, _)
\* The ordered mapping of the well-shaped lines, each entry from its one line.
RangesOfLines(lines, ranges) ==
    IF lines = <<>> THEN ranges
    ELSE RangesOfLines(Tail(lines),
             DictSet(ranges, RangeKey(Head(lines)), Str(RangeValue(Head(lines)))))

\* C11: normal_ranges holds one entry for each line of the Normal Ranges body
\* of the exact shape "- <key>: <value>", key and value both from that line;
\* a line without a colon, with more than one colon or with an empty value
\* gives no entry and no part of the key or value of another line's entry.
C11_OnlyWholeLines ==
    \A c \in Calls :
        pc[c] = "parsed" /\ Names(text[c], NormalHeading) =>
            GetField(Parsed(c), "normal_ranges").v
                = RangesOfLines(
                      SelectSeq(SplitLines(BodyOf(text[c], NormalHeading)), IsRangeLine),
                      <<>>)

(***************************************************************************)
(* parse_bold_entities on blocks of bold markers                           *)
(***************************************************************************)
MaxBoldPieces == 3

BoldPrefixes ==
    { Explode("### System-Specific Analysis\n"),
      Explode("### Personalized Action Plan\n") }

\* Markers with a trailing colon, with colons around a blank, with a leading
\* colon, two pieces of value text and a pair of stars on its own.
BoldPieces ==
    { Explode("**K:**"), Explode("**: :**"), Explode("**:L**"),
      Explode(" v\n"), Explode("w"), Explode("**") }

BoldTexts(n) ==
    {pre \o Concat(ps) :
        pre \in BoldPrefixes,
        ps \in UNION {[1..k -> BoldPieces] : k \in 0..n}}

InitBold == InitWith(BoldTexts(MaxBoldPieces))

SpecBold == InitBold /\ [][Next]_vars

\* The marker text trimmed, with a trailing colon stripped.
MarkerKey(marker) ==
    LET t == Strip(marker, Whitespace)
    IN  IF t # <<>> /\ t[Len(t)] = ":" THEN SubSeq(t, 1, Len(t) - 1) ELSE t

\* The run after a marker, newlines replaced by spaces and whitespace runs
\* collapsed to one space, its border whitespace aside.
RunValue(run) == CollapseSpace(ReplaceNewlines(Strip(run, Whitespace)))

RECURSIVE MarkerEntries(_, _, _)
\* The mapping of the markers of a block from place i on, in scan order: each
\* marker "**<key>**" with the run up to the next "**", the next "###" or the
\* end of the block; a marker whose key is empty gives no entry.
MarkerEntries(block, i, entities) ==
    LET opens == {o \in i..Len(block) : MatchAt(block, o, Stars)}
        o == Min(opens)
        closes == {j \in (o + 2)..Len(block) : MatchAt(block, j, Stars)}
        j == Min(closes)
        e == Min({x \in (j + 2)..(Len(block) + 1) :
                     \/ x = Len(block) + 1
                     \/ MatchAt(block, x, Stars)
                     \/ MatchAt(block, x, Hashes)})
        key == MarkerKey(SubSeq(block, o + 2, j - 1))
        val == RunValue(SubSeq(block, j + 2, e - 1))
    IN  IF opens = {} THEN entities
        ELSE IF closes = {} THEN entities
        ELSE MarkerEntries(block, e,
                 IF key # <<>> THEN DictSet(entities, key, Str(val)) ELSE entities)

BoldFields == {<<"system_analysis", SysHeading>>, <<"personalized_action_plan", PlanHeading>>}

\* C12: system_analysis and personalized_action_plan map, in scan order, every
\* marker "**<key>**" of their block to the run after it up to the next "**",
\* the next "###" or the end of the block; the key is the marker text trimmed
\* with a trailing colon stripped, the value the run with newlines replaced
\* and whitespace runs collapsed, and a later marker with the same key
\* overwrites the value.
C12_MarkersMapped ==
    \A c \in Calls : \A f \in BoldFields :
        pc[c] = "parsed" /\ Names(text[c], f[2]) =>
            GetField(Parsed(c), f[1]).v = MarkerEntries(BodyOf(text[c], f[2]), 1, <<>>)

NoEmptyKey(doc) ==
    \A f \in BoldFields : ~HasKey(GetField(doc, f[1]).v, <<>>)

\* C13: neither system_analysis nor personalized_action_plan has an entry
\* whose key is the empty string, in the mapping parse_bold_entities returns
\* and in the final document, where clean_json has trimmed the keys.
C13_NoEmptyKey ==
    \A c \in Calls :
        /\ pc[c] = "parsed" => NoEmptyKey(Parsed(c))
        /\ pc[c] = "done" => NoEmptyKey(out[c])

(***************************************************************************)
(* biomarker_table row by row                                              *)
(***************************************************************************)
\* The places of the pipes of a line, in order.
PipesOf(line) ==
    LET isPipe(i) == line[i] = "|"
    IN  SelectSeq([i \in 1..Len(line) |-> i], isPipe)

\* A line of exactly five cells: six pipes, the first and the last at its ends.
IsFiveCellLine(line) ==
    LET t == Strip(line, Whitespace)
    IN  /\ Len(PipesOf(t)) = TableColumns + 1
        /\ t[1] = "|" /\ t[Len(t)] = "|"

\* The trimmed cells of a five-cell line.
LineCells(line) ==
    LET t == Strip(line, Whitespace)
        ps == PipesOf(t)
    IN  [k \in 1..TableColumns |->
            Strip(SubSeq(t, ps[k] + 1, ps[k + 1] - 1), Whitespace)]

EmittedLine(line) == IsFiveCellLine(line) /\ Emitted(LineCells(line))

\* C14: every row of biomarker_table has its five cells from one line of the
\* Tabular Mapping block; a line with fewer or more than five cells gives no
\* row and leaves the rows of the other lines as they are.
C14_RowsFromOneLine ==
    \A c \in Calls :
        pc[c] = "parsed" /\ Names(text[c], TableHeading) =>
            LET lines == SelectSeq(SplitLines(BodyOf(text[c], TableHeading)), EmittedLine)
            IN  GetField(Parsed(c), "biomarker_table").v
                    = [k \in 1..Len(lines) |-> RowDict(LineCells(lines[k]))]

====
